---- MODULE Spec2Model ----
(***************************************************************************)
(* State-machine model of the polling contract in src/src/contract.rs:     *)
(* the entry points instantiate and execute (CreatePoll, Vote, Delete,     *)
(* Revoke) acting on the three storage tables CONFIG, POLLS and BALLOTS.   *)
(*                                                                         *)
(* Storage is modelled as the handlers see it through deps.storage: every  *)
(* save/update is applied in program order.  A handler that fails after a  *)
(* write undoes nothing itself: what becomes of that write is the caller's *)
(* business.  A chain host discards the writes of a failed call; the       *)
(* repository's tests call the handlers on mock storage, which keeps them. *)
(* Each call takes the caller's behaviour as the parameter `reverts`.      *)
(*                                                                         *)
(* An Option<T> is a sequence of length at most one: None == <<>>,         *)
(* Some(x) == <<x>>.  A u64 is a sequence of four 16-bit limbs, most       *)
(* significant first, so that the arithmetic keeps its 64-bit width.       *)
(***************************************************************************)
EXTENDS Integers, Sequences, FiniteSets, TLC

VARIABLES
    contract_version,   \* cw2 contract info written by instantiate
    config,             \* CONFIG item: Option<Config>
    polls,              \* POLLS map: poll_id -> Poll
    ballots,            \* BALLOTS map: <<addr, poll_id>> -> Ballot
    overflow_checks,    \* whether the build traps on integer overflow
    msg,                \* the message the last entry-point call executed
    result,             \* what that call returned
    calls,              \* how many entry-point calls the host has made
    voted,              \* history: the <<addr, poll_id>> whose Vote returned Ok
    last_ok,            \* history: <<addr, poll_id>> -> the vote of its last Ok
    created,            \* history: the poll ids whose CreatePoll returned Ok
    attributes          \* the attributes of the Response the last call returned

vars == <<contract_version, config, polls, ballots, overflow_checks, msg, result,
          calls, voted, last_ok, created, attributes>>

storage == <<contract_version, config, polls, ballots>>

----------------------------------------------------------------------------
(* Bounds of the model and the inputs drawn from them.                      *)

MaxCalls == 4

MaxDeepCalls == 6

MaxShortLen == 2

Addrs == {"addr1", "addr2"}

InvalidAddr == ""

PollIds == {"p1", "p2"}

Questions == {"q1", "q2"}

MaxOptions == 10

None == <<>>

Some(x) == <<x>>

(* Option lists a CreatePoll message may carry: the first n labels of       *)
(* LabelSeq for n in 0..MaxShortLen, for n = MaxOptions and for             *)
(* n = MaxOptions + 1.  Votes name one of the first MaxShortLen labels.     *)
LabelSeq == <<"A", "B", "C", "D", "E", "F", "G", "H", "I", "J", "K">>

FirstLabels(n) == SubSeq(LabelSeq, 1, n)

Labels == {LabelSeq[i] : i \in 1..MaxShortLen}

ShortLists == {FirstLabels(n) : n \in 0..MaxShortLen}

OptionLists == ShortLists \cup {FirstLabels(MaxOptions), FirstLabels(MaxOptions + 1)}

----------------------------------------------------------------------------
(* u64 arithmetic on four 16-bit limbs.                                     *)

Limb == 65536

NumLimbs == 4

U64Zero == [i \in 1..NumLimbs |-> 0]

U64Max == [i \in 1..NumLimbs |-> Limb - 1]

RECURSIVE IncAt(_, _)
IncAt(t, i) ==
    IF i = 0 THEN t
    ELSE IF t[i] < Limb - 1 THEN [t EXCEPT ![i] = @ + 1]
    ELSE IncAt([t EXCEPT ![i] = 0], i - 1)

RECURSIVE DecAt(_, _)
DecAt(t, i) ==
    IF i = 0 THEN t
    ELSE IF t[i] > 0 THEN [t EXCEPT ![i] = @ - 1]
    ELSE DecAt([t EXCEPT ![i] = Limb - 1], i - 1)

(* t + 1 and t - 1 modulo 2^64.                                             *)
WrappingAdd1(t) == IncAt(t, NumLimbs)

WrappingSub1(t) == DecAt(t, NumLimbs)

(* The u64 holding the small natural n (n < Limb).                          *)
U64(n) == [i \in 1..NumLimbs |-> IF i = NumLimbs THEN n ELSE 0]

----------------------------------------------------------------------------
(* Storage helpers.                                                         *)

Save(map, key, value) ==
    [k \in DOMAIN map \cup {key} |-> IF k = key THEN value ELSE map[k]]

MayLoad(map, key) == IF key \in DOMAIN map THEN Some(map[key]) ELSE None

AddrValidate(s) == s \in Addrs

(* What deps.storage holds of a table after a call that failed: the table   *)
(* as the call found it if the caller reverts, else as the call left it.    *)
AfterFailure(reverts, before, written) == IF reverts THEN before ELSE written

(* Iterator::position on the options of a poll: the index of the first      *)
(* option whose label is `label`, 0 standing for None.                      *)
Position(options, label) ==
    LET hits == {i \in 1..Len(options) : options[i][1] = label}
    IN  IF hits = {} THEN 0 ELSE CHOOSE i \in hits : \A j \in hits : i <= j

----------------------------------------------------------------------------
Init ==
    /\ contract_version = None
    /\ config = None
    /\ polls = <<>>
    /\ ballots = <<>>
    /\ overflow_checks \in BOOLEAN
    /\ msg = [op |-> "none"]
    /\ result = "none"
    /\ calls = 0
    /\ voted = {}
    /\ last_ok = <<>>
    /\ created = {}
    /\ attributes = <<>>

(* instantiate: lines 14-30.                                                *)
ResolveAdmin_AlwaysSender(sender, admin) == sender

(* Line 21: msg.admin.unwrap_or(info.sender.to_string()).                   *)
ResolveAdmin(sender, admin) == IF admin = None THEN sender ELSE admin[1]

(* Response::new(): no attribute.                                           *)
NoAttributes == <<>>

Instantiate(reverts, sender, admin) ==
    /\ config = None
    /\ msg' = [op |-> "instantiate", sender |-> sender, admin |-> admin]
    /\ LET version  == Some([contract |-> "crates.io:cw-starter"])
           resolved == ResolveAdmin(sender, admin)
       IN  IF AddrValidate(resolved)
           THEN /\ contract_version' = version
                /\ config' = Some([admin |-> resolved])
                /\ attributes' = <<<<"action", "instantiate">>, <<"admin", resolved>>>>
                /\ result' = "Ok"
           ELSE /\ contract_version' = AfterFailure(reverts, contract_version, version)
                /\ config' = config
                /\ attributes' = NoAttributes
                /\ result' = "StdError"
    /\ UNCHANGED <<polls, ballots, overflow_checks, voted, last_ok, created>>

(* execute_create_poll: lines 51-77.                                        *)
TooMany_Inclusive(options) == Len(options) >= MaxOptions

TooMany_OffByOne(options) == Len(options) > MaxOptions + 1

TooMany(options) == Len(options) > MaxOptions

InitialOptions_Reversed(options) ==
    [i \in 1..Len(options) |-> <<options[Len(options) + 1 - i], U64Zero>>]

InitialOptions(options) == [i \in 1..Len(options) |-> <<options[i], U64Zero>>]

NewPoll(sender, question, options) ==
    [creator |-> sender, question |-> question, options |-> InitialOptions(options)]

ExecuteCreatePoll_TakesAdmin(sender, poll_id, question, options) ==
    /\ config # None
    /\ msg' = [op |-> "create_poll", sender |-> sender, poll_id |-> poll_id,
               question |-> question, options |-> options]
    /\ IF TooMany(options)
       THEN /\ result' = "TooManyOptions"
            /\ UNCHANGED <<polls, created, config>>
       ELSE /\ polls' = Save(polls, poll_id, NewPoll(sender, question, options))
            /\ created' = created \cup {poll_id}
            /\ config' = Some([admin |-> sender])
            /\ result' = "Ok"
    /\ attributes' = NoAttributes
    /\ UNCHANGED <<contract_version, ballots, overflow_checks, voted, last_ok>>

ExecuteCreatePoll(sender, poll_id, question, options) ==
    /\ config # None
    /\ msg' = [op |-> "create_poll", sender |-> sender, poll_id |-> poll_id,
               question |-> question, options |-> options]
    /\ IF TooMany(options)
       THEN /\ result' = "TooManyOptions"
            /\ UNCHANGED <<polls, created>>
       ELSE /\ polls' = Save(polls, poll_id, NewPoll(sender, question, options))
            /\ created' = created \cup {poll_id}
            /\ result' = "Ok"
    /\ attributes' = NoAttributes
    /\ UNCHANGED <<contract_version, config, ballots, overflow_checks, voted, last_ok>>

(* execute_vote: lines 79-133.                                              *)

(* `tally -= 1` and `tally += 1` on a u64: a build with overflow checks     *)
(* panics where the other wraps.                                            *)
SubOverflows(t) == overflow_checks /\ t = U64Zero

AddOverflows(t) == overflow_checks /\ t = U64Max

RevokeOldVote_NoDecrement(poll, old_option) ==
    [panic |-> Position(poll.options, old_option) = 0, poll |-> poll]

(* The Some(ballot) arm of the update closure, lines 95-107: the poll with  *)
(* the old vote revoked, or a panic (the unwrap of a missing position, the  *)
(* checked decrement of a zero tally).                                      *)
RevokeOldVote(poll, old_option) ==
    LET position_of_old_vote == Position(poll.options, old_option)
    IN  IF position_of_old_vote = 0
        THEN [panic |-> TRUE, poll |-> poll]
        ELSE IF SubOverflows(poll.options[position_of_old_vote][2])
        THEN [panic |-> TRUE, poll |-> poll]
        ELSE [panic |-> FALSE,
              poll  |-> [poll EXCEPT !.options[position_of_old_vote][2] = WrappingSub1(@)]]

(* The update closure, lines 93-113, on the ballot BALLOTS.update loaded.   *)
UpdateClosure(poll, ballot) ==
    IF ballot # None
    THEN RevokeOldVote(poll, ballot[1].option)
    ELSE [panic |-> FALSE, poll |-> poll]

CountNewVote_ClearsQuestion(poll, position) ==
    [poll EXCEPT !.options[position][2] = WrappingAdd1(@), !.question = ""]

(* Lines 116-125: the poll with the tally of the new vote incremented.      *)
CountNewVote(poll, position) ==
    [poll EXCEPT !.options[position][2] = WrappingAdd1(@)]

LoadPoll_OrEmpty(poll_id) ==
    IF poll_id \in DOMAIN polls
    THEN Some(polls[poll_id])
    ELSE Some([creator |-> "", question |-> "", options |-> <<>>])

(* Line 86: POLLS.may_load.                                                 *)
LoadPoll(poll_id) == MayLoad(polls, poll_id)

ExecuteVote(reverts, sender, poll_id, vote) ==
    LET key    == <<sender, poll_id>>
        loaded == LoadPoll(poll_id)
        ballot == MayLoad(ballots, key)
    IN  /\ config # None
        /\ msg' = [op |-> "vote", sender |-> sender, poll_id |-> poll_id,
                   vote |-> vote, ballot |-> ballot]
        /\ IF loaded = None
           THEN /\ result' = "PollNotFound"
                /\ UNCHANGED <<polls, ballots, voted, last_ok>>
           ELSE LET updated  == UpdateClosure(loaded[1], ballot)
                    written  == Save(ballots, key, [option |-> vote])
                    position == Position(updated.poll.options, vote)
                IN  IF updated.panic
                    THEN /\ result' = "Panic"
                         /\ UNCHANGED <<polls, ballots, voted, last_ok>>
                    ELSE IF position = 0
                    THEN /\ result' = "Unauthorized"
                         /\ ballots' = AfterFailure(reverts, ballots, written)
                         /\ UNCHANGED <<polls, voted, last_ok>>
                    ELSE IF AddOverflows(updated.poll.options[position][2])
                    THEN /\ result' = "Panic"
                         /\ ballots' = AfterFailure(reverts, ballots, written)
                         /\ UNCHANGED <<polls, voted, last_ok>>
                    ELSE /\ ballots' = written
                         /\ polls' = Save(polls, poll_id,
                                          CountNewVote(updated.poll, position))
                         /\ voted' = voted \cup {key}
                         /\ last_ok' = Save(last_ok, key, vote)
                         /\ result' = "Ok"
        /\ attributes' = NoAttributes
        /\ UNCHANGED <<contract_version, config, overflow_checks, created>>

(* ExecuteMsg::Delete and ExecuteMsg::Revoke: unimplemented!(), lines 46-47.*)
ExecuteDelete(poll_id) ==
    /\ config # None
    /\ msg' = [op |-> "delete", poll_id |-> poll_id]
    /\ result' = "Panic"
    /\ attributes' = NoAttributes
    /\ UNCHANGED <<contract_version, config, polls, ballots, overflow_checks, voted,
                   last_ok, created>>

ExecuteRevoke_RemovesBallots(poll_id, vote) ==
    /\ config # None
    /\ msg' = [op |-> "revoke", poll_id |-> poll_id, vote |-> vote]
    /\ result' = "Ok"
    /\ attributes' = NoAttributes
    /\ ballots' = [k \in {j \in DOMAIN ballots :
                              ~(j[2] = poll_id /\ ballots[j].option = vote)}
                     |-> ballots[k]]
    /\ UNCHANGED <<contract_version, config, polls, overflow_checks, voted,
                   last_ok, created>>

ExecuteRevoke(poll_id, vote) ==
    /\ config # None
    /\ msg' = [op |-> "revoke", poll_id |-> poll_id, vote |-> vote]
    /\ result' = "Panic"
    /\ attributes' = NoAttributes
    /\ UNCHANGED <<contract_version, config, polls, ballots, overflow_checks, voted,
                   last_ok, created>>

----------------------------------------------------------------------------
(* query: lines 135-163.  The queries take Deps, which cannot write: they   *)
(* are functions of the storage, not steps.                                 *)

(* The poll ids in the ascending order of their storage keys.               *)
PollIdOrder == <<"p1", "p2">>

(* POLLS.range(.., Order::Ascending), line 146: the stored keys, ascending. *)
RangeAscending ==
    SelectSeq(PollIdOrder, LAMBDA k : k \in DOMAIN polls)

QueryAllPolls_Descending ==
    [result |-> "Ok",
     polls  |-> [i \in 1..Len(RangeAscending) |-> 
                    polls[RangeAscending[Len(RangeAscending) + 1 - i]]]]

(* query_all_polls, lines 144-151.                                          *)
QueryAllPolls ==
    [result |-> "Ok",
     polls  |-> [i \in 1..Len(RangeAscending) |-> polls[RangeAscending[i]]]]

(* query_poll, lines 153-156.                                               *)
QueryPoll(poll_id) == [result |-> "Ok", poll |-> MayLoad(polls, poll_id)]

QueryVote_SwappedKey(address, poll_id) ==
    IF AddrValidate(address)
    THEN [result |-> "Ok", vote |-> MayLoad(ballots, <<poll_id, address>>)]
    ELSE [result |-> "Panic", vote |-> None]

(* query_vote, lines 158-163: the unwrap of line 159 panics on an address   *)
(* that does not validate.                                                  *)
QueryVote(address, poll_id) ==
    IF AddrValidate(address)
    THEN [result |-> "Ok", vote |-> MayLoad(ballots, <<address, poll_id>>)]
    ELSE [result |-> "Panic", vote |-> None]

----------------------------------------------------------------------------
AdminInputs == {None} \cup {Some(a) : a \in Addrs \cup {InvalidAddr}}

Call(max_calls, entry) ==
    /\ calls < max_calls
    /\ calls' = calls + 1
    /\ entry

(* The host's calls, with the messages drawn from the given input sets and  *)
(* the caller's handling of a failed call's writes drawn from `hosts`.      *)
NextOn(max_calls, hosts, poll_ids, questions, lists) ==
    \/ \E reverts \in hosts, sender \in Addrs, admin \in AdminInputs :
            Call(max_calls, Instantiate(reverts, sender, admin))
    \/ \E sender \in Addrs, poll_id \in poll_ids, question \in questions,
          options \in lists :
            Call(max_calls, ExecuteCreatePoll(sender, poll_id, question, options))
    \/ \E reverts \in hosts, sender \in Addrs, poll_id \in poll_ids, vote \in Labels :
            Call(max_calls, ExecuteVote(reverts, sender, poll_id, vote))
    \/ \E poll_id \in poll_ids : Call(max_calls, ExecuteDelete(poll_id))
    \/ \E poll_id \in poll_ids, vote \in Labels :
            Call(max_calls, ExecuteRevoke(poll_id, vote))

(* Any caller: failed calls' writes are kept or discarded.                  *)
Next == NextOn(MaxCalls, BOOLEAN, PollIds, Questions, OptionLists)

Spec == Init /\ [][Next]_vars

(* A transactional host: the writes of a failed call are always discarded.  *)
TxNext == NextOn(MaxCalls, {TRUE}, PollIds, Questions, OptionLists)

TxSpec == Init /\ [][TxNext]_vars

(* Longer runs under a transactional host, on one poll id and one question  *)
(* with the short option lists.                                             *)
TxDeepNext == NextOn(MaxDeepCalls, {TRUE}, {"p1"}, {"q1"}, ShortLists)

TxDeepSpec == Init /\ [][TxDeepNext]_vars

----------------------------------------------------------------------------
(* Vocabulary of the properties.                                            *)

IsVote(m) == m.op = "vote"

IsCreatePoll(m) == m.op = "create_poll"

(* The stored Ballots of a poll that record the option `label`.             *)
BallotsFor(poll_id, label) ==
    {k \in DOMAIN ballots : k[2] = poll_id /\ ballots[k].option = label}

Tally(poll, i) == poll.options[i][2]

Label(poll, i) == poll.options[i][1]

(* The tally is a small number (below 2^16), and its value.                 *)
IsSmall(t) == \A i \in 1..(NumLimbs - 1) : t[i] = 0

RECURSIVE SumLow(_, _)
SumLow(poll, n) == IF n = 0 THEN 0 ELSE SumLow(poll, n - 1) + Tally(poll, n)[NumLimbs]

(* t2 is exactly t + 1, respectively t - 1, as numbers (no wrap-around).    *)
OneMore(t, t2) == t # U64Max /\ t2 = WrappingAdd1(t)

OneLess(t, t2) == t # U64Zero /\ t2 = WrappingSub1(t)

(* Every tally of the poll except those at the positions in `except` is the *)
(* same in both polls.                                                      *)
OtherTalliesSame(before, after, except) ==
    /\ Len(after.options) = Len(before.options)
    /\ \A i \in (1..Len(before.options)) \ except : Tally(after, i) = Tally(before, i)

----------------------------------------------------------------------------
(* C1: in every reachable state, for every stored poll and every option of  *)
(* it, the option's tally equals the number of stored Ballots of that poll  *)
(* that record the option's label.                                          *)
C1_TallyEqualsBallotCount ==
    \A p \in DOMAIN polls : \A i \in 1..Len(polls[p].options) :
        Tally(polls[p], i) = U64(Cardinality(BallotsFor(p, Label(polls[p], i))))

(* C2: for every poll, the sum of its tallies equals the number of distinct *)
(* voters whose cast_vote on that poll has succeeded.                       *)
C2_SumEqualsDistinctVoters ==
    \A p \in DOMAIN polls :
        /\ \A i \in 1..Len(polls[p].options) : IsSmall(Tally(polls[p], i))
        /\ SumLow(polls[p], Len(polls[p].options))
             = Cardinality({k \in voted : k[2] = p})

(* C3: a cast_vote for the option the voter's Ballot already records leaves *)
(* every tally of the poll and the Ballot as they were.                     *)
C3_SameOptionRevoteIsNoOp ==
    [][ (/\ IsVote(msg')
         /\ msg'.poll_id \in DOMAIN polls
         /\ <<msg'.sender, msg'.poll_id>> \in DOMAIN ballots
         /\ ballots[<<msg'.sender, msg'.poll_id>>].option = msg'.vote)
        => (/\ msg'.poll_id \in DOMAIN polls'
            /\ polls'[msg'.poll_id].options = polls[msg'.poll_id].options
            /\ ballots' = ballots) ]_vars

C3_Witness ==
    /\ IsVote(msg)
    /\ msg.ballot = Some([option |-> msg.vote])
    /\ result = "Ok"
    /\ \E i \in 1..Len(polls[msg.poll_id].options) :
          /\ Label(polls[msg.poll_id], i) = msg.vote
          /\ Tally(polls[msg.poll_id], i) = U64(1)

(* C4: a cast_vote whose option matches no option of the existing poll      *)
(* fails with Unauthorized and leaves the Ballot table and the Poll as they *)
(* were.                                                                    *)
C4_InvalidOptionChangesNothing ==
    [][ (/\ IsVote(msg')
         /\ msg'.poll_id \in DOMAIN polls
         /\ Position(polls[msg'.poll_id].options, msg'.vote) = 0)
        => (/\ result' = "Unauthorized"
            /\ ballots' = ballots
            /\ polls' = polls) ]_vars

(* C5: a cast_vote on a poll_id with no stored Poll fails with PollNotFound *)
(* and leaves all Polls, all Ballots and the Config unchanged.              *)
C5_MissingPollIsNotFound ==
    [][ (IsVote(msg') /\ msg'.poll_id \notin DOMAIN polls)
        => (/\ result' = "PollNotFound"
            /\ polls' = polls
            /\ ballots' = ballots
            /\ config' = config) ]_vars

C5_Witness ==
    /\ IsVote(msg)
    /\ result = "PollNotFound"
    /\ msg.poll_id \notin DOMAIN polls
    /\ polls # <<>>

(* C6: when a voter whose Ballot records option X votes for a different     *)
(* existing option Y, tally(X) is one less, tally(Y) is one more, every     *)
(* other tally is unchanged and the Ballot records Y.                       *)
C6_ChangedVoteMovesOneTally ==
    [][ (/\ IsVote(msg')
         /\ msg'.poll_id \in DOMAIN polls
         /\ <<msg'.sender, msg'.poll_id>> \in DOMAIN ballots
         /\ ballots[<<msg'.sender, msg'.poll_id>>].option # msg'.vote
         /\ Position(polls[msg'.poll_id].options,
                     ballots[<<msg'.sender, msg'.poll_id>>].option) # 0
         /\ Position(polls[msg'.poll_id].options, msg'.vote) # 0)
        => LET key    == <<msg'.sender, msg'.poll_id>>
               before == polls[msg'.poll_id]
               after  == polls'[msg'.poll_id]
               x      == Position(before.options, ballots[key].option)
               y      == Position(before.options, msg'.vote)
           IN  /\ OneLess(Tally(before, x), Tally(after, x))
               /\ OneMore(Tally(before, y), Tally(after, y))
               /\ OtherTalliesSame(before, after, {x, y})
               /\ ballots'[key].option = msg'.vote ]_vars

(* C7: when a voter with no Ballot on an existing poll votes for an         *)
(* existing option X, a Ballot recording X exists afterwards, tally(X) is   *)
(* exactly one more and every other tally is unchanged.                     *)
C7_FirstVoteAddsOne ==
    [][ (/\ IsVote(msg')
         /\ msg'.poll_id \in DOMAIN polls
         /\ <<msg'.sender, msg'.poll_id>> \notin DOMAIN ballots
         /\ Position(polls[msg'.poll_id].options, msg'.vote) # 0)
        => LET key    == <<msg'.sender, msg'.poll_id>>
               before == polls[msg'.poll_id]
               after  == polls'[msg'.poll_id]
               x      == Position(before.options, msg'.vote)
           IN  /\ key \in DOMAIN ballots'
               /\ ballots'[key].option = msg'.vote
               /\ OneMore(Tally(before, x), Tally(after, x))
               /\ OtherTalliesSame(before, after, {x}) ]_vars

(* C8 as stated: every stored Poll has between 1 and 10 options.            *)
C8_BetweenOneAndTenOptions ==
    \A p \in DOMAIN polls :
        Len(polls[p].options) >= 1 /\ Len(polls[p].options) <= MaxOptions

(* C8 amended: every stored Poll has at most 10 options (a poll with no     *)
(* option can be stored).                                                   *)
C8_AtMostTenOptions ==
    \A p \in DOMAIN polls : Len(polls[p].options) \in 0..MaxOptions

C8_Witness ==
    /\ \E p \in DOMAIN polls : Len(polls[p].options) = MaxOptions
    /\ \E p \in DOMAIN polls : Len(polls[p].options) = 0
    /\ IsCreatePoll(msg)
    /\ Len(msg.options) = MaxOptions + 1

(* C9: create_poll fails with TooManyOptions exactly when the option list   *)
(* has more than 10 entries; a failed create_poll leaves storage unchanged, *)
(* and with at most 10 entries the call succeeds and the Poll is stored.    *)
C9_TooManyOptionsExactlyAboveTen ==
    [][ IsCreatePoll(msg')
        => (/\ (result' = "TooManyOptions") <=> (Len(msg'.options) > MaxOptions)
            /\ Len(msg'.options) > MaxOptions
                 => (polls' = polls /\ ballots' = ballots /\ config' = config)
            /\ Len(msg'.options) <= MaxOptions
                 => (/\ result' = "Ok"
                     /\ msg'.poll_id \in DOMAIN polls'
                     /\ Len(polls'[msg'.poll_id].options) = Len(msg'.options))) ]_vars

C9_Witness ==
    /\ IsCreatePoll(msg)
    /\ Len(msg.options) = MaxOptions
    /\ result = "Ok"
    /\ msg.poll_id \in DOMAIN polls
    /\ Len(polls[msg.poll_id].options) = MaxOptions

(* C10: a successful create_poll writes exactly one Poll, at poll_id, with  *)
(* the caller as creator, the given question and the supplied labels in     *)
(* order each with tally 0; no other Poll, no Ballot and not the Config     *)
(* changes.                                                                 *)
C10_CreatePollWritesOnePoll ==
    [][ (IsCreatePoll(msg') /\ result' = "Ok")
        => LET p == msg'.poll_id
           IN  /\ DOMAIN polls' = DOMAIN polls \cup {p}
               /\ polls'[p].creator = msg'.sender
               /\ polls'[p].question = msg'.question
               /\ Len(polls'[p].options) = Len(msg'.options)
               /\ \A i \in 1..Len(msg'.options) :
                     polls'[p].options[i] = <<msg'.options[i], U64Zero>>
               /\ \A q \in DOMAIN polls \ {p} : polls'[q] = polls[q]
               /\ ballots' = ballots
               /\ config' = config ]_vars

C10_Witness ==
    /\ IsCreatePoll(msg)
    /\ result = "Ok"
    /\ Len(msg.options) = MaxShortLen
    /\ DOMAIN polls = PollIds
    /\ \E q \in DOMAIN polls : q # msg.poll_id /\ polls[q].question # msg.question
    /\ ballots # <<>>

IsInstantiate(m) == m.op = "instantiate"

IsDelete(m) == m.op = "delete"

IsRevoke(m) == m.op = "revoke"

(* The labels of a poll, in order.                                          *)
LabelsOf(poll) == [i \in 1..Len(poll.options) |-> Label(poll, i)]

(* C11: once a Poll is stored at a poll_id it stays stored there with the   *)
(* same creator, question and option labels in the same order; a stored     *)
(* Poll changes only in its tallies and only in a cast_vote on its poll_id. *)
C11_StoredPollKeepsIdentity ==
    [][ \A p \in DOMAIN polls :
          /\ p \in DOMAIN polls'
          /\ polls'[p].creator = polls[p].creator
          /\ polls'[p].question = polls[p].question
          /\ LabelsOf(polls'[p]) = LabelsOf(polls[p])
          /\ polls'[p] # polls[p] => (IsVote(msg') /\ msg'.poll_id = p) ]_vars

(* C12: the Ballot of (v, p) changes only in a cast_vote step of v on p, a  *)
(* Ballot that exists keeps existing, the Ballot keys are (voter, poll_id)  *)
(* pairs, and Delete and Revoke abort leaving every Poll and Ballot as it   *)
(* was.                                                                     *)
C12_BallotLifecycle ==
    [][ /\ \A k \in DOMAIN ballots : k \in DOMAIN ballots'
        /\ \A k \in DOMAIN ballots' :
              (k \notin DOMAIN ballots \/ ballots'[k] # ballots[k])
                  => (IsVote(msg') /\ k = <<msg'.sender, msg'.poll_id>>)
        /\ DOMAIN ballots' \subseteq Addrs \X PollIds
        /\ (IsDelete(msg') \/ IsRevoke(msg'))
              => (result' = "Panic" /\ polls' = polls /\ ballots' = ballots) ]_vars

C12_Witness ==
    /\ IsRevoke(msg)
    /\ result = "Panic"
    /\ \E k \in DOMAIN ballots : k[2] = msg.poll_id /\ ballots[k].option = msg.vote

(* C13: get_vote and get_poll never fail for a valid principal; get_vote    *)
(* returns absence when the voter has no successful cast_vote on the poll   *)
(* and otherwise the option of the most recent successful one; get_poll     *)
(* returns absence when no Poll was created at poll_id and otherwise the    *)
(* stored Poll.                                                             *)
C13_QueriesReturnStoredState ==
    /\ \A v \in Addrs, p \in PollIds :
          /\ QueryVote(v, p).result = "Ok"
          /\ QueryVote(v, p).vote =
                IF <<v, p>> \in DOMAIN last_ok
                THEN Some([option |-> last_ok[<<v, p>>]])
                ELSE None
    /\ \A p \in PollIds :
          /\ QueryPoll(p).result = "Ok"
          /\ QueryPoll(p).poll =
                IF p \in created THEN Some(polls[p]) ELSE None

C13_Witness ==
    /\ \E v \in Addrs, p \in PollIds :
          /\ <<v, p>> \in DOMAIN last_ok
          /\ \E w \in Addrs : <<w, p>> \notin DOMAIN last_ok
          /\ QueryVote(v, p).vote # None
          /\ IsVote(msg) /\ msg.sender = v /\ msg.poll_id = p
          /\ result # "Ok"
    /\ \E p \in PollIds : p \in created /\ QueryPoll(p).poll # None
    /\ \E p \in PollIds : p \notin created

(* A listing is in ascending key order and complete when some strictly      *)
(* increasing choice of keys covers exactly the stored poll_ids and names   *)
(* the listed Poll at each position.                                        *)
ListsStoredPollsAscending(listing) ==
    \E f \in [1..Len(listing) -> 1..Len(PollIdOrder)] :
        /\ \A i, j \in 1..Len(listing) : i < j => f[i] < f[j]
        /\ {PollIdOrder[f[i]] : i \in 1..Len(listing)} = DOMAIN polls
        /\ \A i \in 1..Len(listing) : listing[i] = polls[PollIdOrder[f[i]]]

(* C14: list_polls returns every stored Poll exactly once in ascending      *)
(* poll_id order: the empty sequence when no poll was created, and as many  *)
(* Polls as distinct poll_ids were created.                                 *)
C14_ListPollsAscendingAndComplete ==
    /\ QueryAllPolls.result = "Ok"
    /\ ListsStoredPollsAscending(QueryAllPolls.polls)
    /\ Len(QueryAllPolls.polls) = Cardinality(created)
    /\ created = {} => QueryAllPolls.polls = <<>>

C14_Witness ==
    /\ IsCreatePoll(msg)
    /\ result = "Ok"
    /\ created = {"p1", "p2"}
    /\ polls["p1"] # polls["p2"]
    /\ Len(QueryAllPolls.polls) = 2

C16_ConfigNeverChanges ==
    [][ config # None => config' = config ]_vars

C16_Witness ==
    /\ config # None
    /\ IsCreatePoll(msg)
    /\ result = "Ok"
    /\ msg.sender # config[1].admin
    /\ ballots # <<>>

(* C17 as stated: a successful cast_vote for the option the voter's Ballot  *)
(* already records leaves that option's tally one more than before.         *)
C17_SameOptionRevoteAddsOne ==
    [][ (/\ IsVote(msg')
         /\ result' = "Ok"
         /\ <<msg'.sender, msg'.poll_id>> \in DOMAIN ballots
         /\ ballots[<<msg'.sender, msg'.poll_id>>].option = msg'.vote)
        => LET i == Position(polls[msg'.poll_id].options, msg'.vote)
           IN  OneMore(Tally(polls[msg'.poll_id], i), Tally(polls'[msg'.poll_id], i)) ]_vars

(* C17 amended: a successful cast_vote for the option the voter's Ballot    *)
(* already records decrements that option's tally and increments it again,  *)
(* so the tally after the call equals the tally before it.                  *)
C17_SameOptionRevoteKeepsTally ==
    [][ (/\ IsVote(msg')
         /\ result' = "Ok"
         /\ <<msg'.sender, msg'.poll_id>> \in DOMAIN ballots
         /\ ballots[<<msg'.sender, msg'.poll_id>>].option = msg'.vote)
        => LET i == Position(polls[msg'.poll_id].options, msg'.vote)
           IN  /\ i # 0
               /\ Tally(polls'[msg'.poll_id], i)
                    = WrappingAdd1(WrappingSub1(Tally(polls[msg'.poll_id], i)))
               /\ Tally(polls'[msg'.poll_id], i) = Tally(polls[msg'.poll_id], i) ]_vars

C17_Witness ==
    /\ IsVote(msg)
    /\ result = "Ok"
    /\ msg.ballot = Some([option |-> msg.vote])
    /\ Len(polls[msg.poll_id].options) = 2
    /\ Label(polls[msg.poll_id], 2) = msg.vote
    /\ Tally(polls[msg.poll_id], 2) = U64(1)
    /\ Tally(polls[msg.poll_id], 1) = U64Zero

(* C18: in every reachable state every stored Ballot's poll_id has a stored *)
(* Poll and the Ballot's option is the label of one of that Poll's options  *)
(* (so the unwrap of the old vote's position cannot abort).                 *)
C18_BallotOptionIsALabel ==
    \A k \in DOMAIN ballots :
        /\ k[2] \in DOMAIN polls
        /\ Position(polls[k[2]].options, ballots[k].option) # 0

(* C19: in every reachable state, the tally of the option a stored Ballot   *)
(* records is at least 1 (so the decrement of the old tally cannot          *)
(* underflow).                                                              *)
C19_RecordedOptionTallyAtLeastOne ==
    \A k \in DOMAIN ballots :
        k[2] \in DOMAIN polls =>
            LET i == Position(polls[k[2]].options, ballots[k].option)
            IN  i # 0 => Tally(polls[k[2]], i) # U64Zero

(* C20: a cast_vote by v on p changes nothing but the Ballot (v, p) and the *)
(* tallies of p: the other Polls, the other Ballots, and p's creator,       *)
(* question and option labels in order are as before, and so is the Config. *)
C20_VoteFrame ==
    [][ IsVote(msg') =>
          LET v == msg'.sender
              p == msg'.poll_id
          IN  /\ DOMAIN polls' = DOMAIN polls
              /\ \A q \in DOMAIN polls \ {p} : polls'[q] = polls[q]
              /\ p \in DOMAIN polls =>
                    /\ polls'[p].creator = polls[p].creator
                    /\ polls'[p].question = polls[p].question
                    /\ LabelsOf(polls'[p]) = LabelsOf(polls[p])
              /\ DOMAIN ballots' \ {<<v, p>>} = DOMAIN ballots \ {<<v, p>>}
              /\ \A k \in DOMAIN ballots \ {<<v, p>>} : ballots'[k] = ballots[k]
              /\ config' = config
              /\ contract_version' = contract_version ]_vars

C20_Witness ==
    /\ IsVote(msg)
    /\ result = "Ok"
    /\ \E k \in DOMAIN ballots : k # <<msg.sender, msg.poll_id>>
    /\ Len(polls[msg.poll_id].options) = 2
    /\ polls[msg.poll_id].question = "q2"

====
